---- MODULE Spec2Model ----
(***************************************************************************)
(* A model of pyfaup/tldextract.py: the public-suffix matcher              *)
(* (_PublicSuffixListTLDExtractor.extract and TLDExtract._extract) and the *)
(* lazy resolution of the suffix set (TLDExtract._get_tld_extractor).      *)
(*                                                                         *)
(* Text is modelled as a sequence of one-character strings, so that        *)
(* split('.'), '.'.join and rpartition('.') are computed and not assumed.  *)
(* Line 203, bytes(netloc).split('.'), is read as the '.'-split of the     *)
(* host's text, the reading under which the docstring's examples hold      *)
(* (bytes is str).  What an interpreter whose bytes() rejects text does on *)
(* that line is outside this model.                                        *)
(***************************************************************************)
EXTENDS Naturals, Sequences, FiniteSets, TLC

----------------------------------------------------------------------------
(* Bounds of the model *)

\* longest host, in characters
MaxHostLen == 5
\* most rules in a suffix set handed to the matcher
MaxRules == 2
\* most calls one caller of the provider makes
MaxCalls == 2

----------------------------------------------------------------------------
(* Text *)

Dot == "."

\* characters a host is made of
HostChars == {"a", "b", Dot}

RECURSIVE StringsUpTo(_)
\* every text over HostChars of at most n characters
StringsUpTo(n) ==
  IF n = 0 THEN {<<>>}
  ELSE LET shorter == StringsUpTo(n - 1)
       IN shorter \cup {Append(s, c) : s \in {u \in shorter : Len(u) = n - 1}, c \in HostChars}

\* the positions of '.' in s
DotsOf(s) == {k \in 1..Len(s) : s[k] = Dot}

Min(S) == CHOOSE k \in S : \A j \in S : k <= j
Max(S) == CHOOSE k \in S : \A j \in S : k >= j

RECURSIVE Split(_)
\* s.split('.'): the labels of s, at least one, none holding a '.'
Split(s) ==
  IF DotsOf(s) = {} THEN <<s>>
  ELSE LET k == Min(DotsOf(s))
       IN <<SubSeq(s, 1, k - 1)>> \o Split(SubSeq(s, k + 1, Len(s)))

RECURSIVE Join(_)
\* '.'.join(labels); the join of no label is the empty text
Join(labels) ==
  IF labels = <<>> THEN <<>>
  ELSE IF Len(labels) = 1 THEN labels[1]
  ELSE labels[1] \o <<Dot>> \o Join(Tail(labels))

\* RPartition splitting at the first '.', as s.partition('.') does
Partition(s) ==
  IF DotsOf(s) = {} THEN << <<>>, <<>>, s >>
  ELSE LET k == Min(DotsOf(s))
       IN <<SubSeq(s, 1, k - 1), <<Dot>>, SubSeq(s, k + 1, Len(s))>>

\* s.rpartition('.'): (before, separator, after) around the last '.',
\* and ('', '', s) when s holds no '.'
RPartition(s) ==
  IF DotsOf(s) = {} THEN << <<>>, <<>>, s >>
  ELSE LET k == Max(DotsOf(s))
       IN <<SubSeq(s, 1, k - 1), <<Dot>>, SubSeq(s, k + 1, Len(s))>>

\* spl[i:] and spl[:i] of Python, i counted from 0
From(spl, i) == SubSeq(spl, i + 1, Len(spl))
Upto(spl, i) == SubSeq(spl, 1, i)

----------------------------------------------------------------------------
(* _PublicSuffixListTLDExtractor.extract *)

\* the outcome of the for loop when no index matched
NoMatch == << <<"no match">> >>

RECURSIVE extract_loop_slice(_, _, _)
\* extract_loop with spl[:i+1] for spl[:i] on line 212
extract_loop_slice(tlds, spl, i) ==
  IF i >= Len(spl) THEN NoMatch
  ELSE LET maybe_tld == Join(From(spl, i))
           exception_tld == <<"!">> \o maybe_tld
           wildcard_tld == <<"*", Dot>> \o Join(From(spl, i + 1))
       IN IF exception_tld \in tlds
            THEN <<Join(Upto(spl, i + 1)), Join(From(spl, i + 1))>>
          ELSE IF wildcard_tld \in tlds \/ maybe_tld \in tlds
            THEN <<Join(Upto(spl, i + 1)), maybe_tld>>
          ELSE extract_loop_slice(tlds, spl, i + 1)

RECURSIVE extract_loop_shortest(_, _, _)
\* extract_loop trying the shortest tail first
extract_loop_shortest(tlds, spl, i) ==
  IF i >= Len(spl) THEN NoMatch
  ELSE LET k == Len(spl) - 1 - i
           maybe_tld == Join(From(spl, k))
           exception_tld == <<"!">> \o maybe_tld
           wildcard_tld == <<"*", Dot>> \o Join(From(spl, k + 1))
       IN IF exception_tld \in tlds
            THEN <<Join(Upto(spl, k + 1)), Join(From(spl, k + 1))>>
          ELSE IF wildcard_tld \in tlds \/ maybe_tld \in tlds
            THEN <<Join(Upto(spl, k)), maybe_tld>>
          ELSE extract_loop_shortest(tlds, spl, i + 1)

RECURSIVE extract_loop_wildcard_first(_, _, _)
\* extract_loop with the test of line 211 before the test of line 207
extract_loop_wildcard_first(tlds, spl, i) ==
  IF i >= Len(spl) THEN NoMatch
  ELSE LET maybe_tld == Join(From(spl, i))
           exception_tld == <<"!">> \o maybe_tld
           wildcard_tld == <<"*", Dot>> \o Join(From(spl, i + 1))
       IN IF wildcard_tld \in tlds \/ maybe_tld \in tlds
            THEN <<Join(Upto(spl, i)), maybe_tld>>
          ELSE IF exception_tld \in tlds
            THEN <<Join(Upto(spl, i + 1)), Join(From(spl, i + 1))>>
          ELSE extract_loop_wildcard_first(tlds, spl, i + 1)

RECURSIVE extract_loop_star(_, _, _)
\* extract_loop with the wildcard key of line 210 built on spl[i:]
extract_loop_star(tlds, spl, i) ==
  IF i >= Len(spl) THEN NoMatch
  ELSE LET maybe_tld == Join(From(spl, i))
           exception_tld == <<"!">> \o maybe_tld
           wildcard_tld == <<"*", Dot>> \o Join(From(spl, i))
       IN IF exception_tld \in tlds
            THEN <<Join(Upto(spl, i + 1)), Join(From(spl, i + 1))>>
          ELSE IF wildcard_tld \in tlds \/ maybe_tld \in tlds
            THEN <<Join(Upto(spl, i)), maybe_tld>>
          ELSE extract_loop_star(tlds, spl, i + 1)

RECURSIVE extract_loop_exception_slice(_, _, _)
\* extract_loop with spl[:i] for spl[:i+1] on line 208
extract_loop_exception_slice(tlds, spl, i) ==
  IF i >= Len(spl) THEN NoMatch
  ELSE LET maybe_tld == Join(From(spl, i))
           exception_tld == <<"!">> \o maybe_tld
           wildcard_tld == <<"*", Dot>> \o Join(From(spl, i + 1))
       IN IF exception_tld \in tlds
            THEN <<Join(Upto(spl, i)), Join(From(spl, i + 1))>>
          ELSE IF wildcard_tld \in tlds \/ maybe_tld \in tlds
            THEN <<Join(Upto(spl, i)), maybe_tld>>
          ELSE extract_loop_exception_slice(tlds, spl, i + 1)

RECURSIVE extract_loop_short_tld(_, _, _)
\* extract_loop returning spl[i+1:] for the suffix on line 212
extract_loop_short_tld(tlds, spl, i) ==
  IF i >= Len(spl) THEN NoMatch
  ELSE LET maybe_tld == Join(From(spl, i))
           exception_tld == <<"!">> \o maybe_tld
           wildcard_tld == <<"*", Dot>> \o Join(From(spl, i + 1))
       IN IF exception_tld \in tlds
            THEN <<Join(Upto(spl, i + 1)), Join(From(spl, i + 1))>>
          ELSE IF wildcard_tld \in tlds \/ maybe_tld \in tlds
            THEN <<Join(Upto(spl, i)), Join(From(spl, i + 1))>>
          ELSE extract_loop_short_tld(tlds, spl, i + 1)

RECURSIVE extract_loop(_, _, _)
\* the for loop of extract from index i on: the pair it returns,
\* (registered domain, tld), or NoMatch when it runs out of indices
extract_loop(tlds, spl, i) ==
  IF i >= Len(spl) THEN NoMatch
  ELSE LET maybe_tld == Join(From(spl, i))
           exception_tld == <<"!">> \o maybe_tld
           wildcard_tld == <<"*", Dot>> \o Join(From(spl, i + 1))
       IN IF exception_tld \in tlds
            THEN <<Join(Upto(spl, i + 1)), Join(From(spl, i + 1))>>
          ELSE IF wildcard_tld \in tlds \/ maybe_tld \in tlds
            THEN <<Join(Upto(spl, i)), maybe_tld>>
          ELSE extract_loop(tlds, spl, i + 1)

\* extract trying the tails from the second label on only
extract_proper_tails(tlds, netloc) ==
  LET found == extract_loop(tlds, Split(netloc), 1)
  IN IF found = NoMatch THEN <<netloc, <<>> >> ELSE found

\* extract(netloc) of an extractor holding tlds
extract(tlds, netloc) ==
  LET found == extract_loop(tlds, Split(netloc), 0)
  IN IF found = NoMatch THEN <<netloc, <<>> >> ELSE found

----------------------------------------------------------------------------
(* The values of the state *)

Callers == {"c1", "c2"}

\* self._extractor: None, or an extractor holding a suffix set
None == <<>>
Extractor(tlds) == <<tlds>>
TldsOf(e) == e[1]

\* truth value of self._extractor in `if self._extractor:` (an object
\* without __bool__ or __len__ is true whatever it holds)
Truthy(e) == e # None

\* the hosts handed to the matcher
Hosts == StringsUpTo(MaxHostLen)

\* the rules the matcher's suffix sets are drawn from: plain, wildcard and
\* exception rules, and two rules with a trailing dot, which the rule
\* grammar of line 194 lets through
RulePool ==
  { <<"a">>, <<"b">>, <<"a", Dot, "b">>, <<"b", Dot, "b">>,
    <<"*", Dot, "b">>, <<"*", Dot, "a", Dot, "b">>,
    <<"!", "a", Dot, "b">>, <<"!", "b", Dot, "b">>, <<"!", "b">>,
    <<"b", Dot>>, <<"!", "b", Dot>> }

SuffixSets == {S \in SUBSET RulePool : Cardinality(S) <= MaxRules}

\* what the files and the remote source of the provider's runs hold
CachedTlds == { {}, {<<"b">>} }
SnapshotTlds == { {<<"b">>, <<"a", Dot, "b">>} }
FetchedTlds == { {}, {<<"*", Dot, "b">>, <<"!", "a", Dot, "b">>} }
CallHosts == { <<"a", Dot, "b">>, <<"b", Dot, "a", Dot, "b">> }

\* a file: absent, unreadable, not a pickle, or the pickle of a set
File(kind, tlds) == [kind |-> kind, tlds |-> tlds]
Data(tlds) == File("data", tlds)
ENOENT == File("ENOENT", {})
EACCES == File("EACCES", {})
Corrupt == File("corrupt", {})

\* the locals of a caller's __call__, _extract and _get_tld_extractor
NoFrame(h) ==
  [host |-> h, extractor |-> None, tlds |-> {}, registered_domain |-> <<>>,
   tld |-> <<>>, subdomain |-> <<>>, domain |-> <<>>]

\* what __call__ handed back: nothing yet, a value, or an exception
Pending == [kind |-> "pending", value |-> <<>>]
Returned(v) == [kind |-> "returned", value |-> v]
Raised == [kind |-> "raised", value |-> <<>>]
\* Python's None as a returned value
PyNone == <<"None">>

VARIABLES
  fetch,          \* self.fetch
  debug,          \* LOG.isEnabledFor(logging.DEBUG)
  cache_file,     \* the file at self.cache_file
  snapshot_file,  \* the packaged .tld_set_snapshot
  _extractor,     \* self._extractor
  tld,            \* self.tld
  subdomain,      \* self.subdomain
  domain,         \* self.domain
  pc,             \* each caller's position
  frame,          \* each caller's locals
  ret,            \* what each caller's last __call__ handed back
  calls,          \* the calls each caller has made
  ops,            \* the file and network operations of each caller's call
  first,          \* the extractor the first resolution memoized
  later           \* whether each caller's call began after that resolution

vars == <<fetch, debug, cache_file, snapshot_file, _extractor, tld, subdomain,
          domain, pc, frame, ret, calls, ops, first, later>>

\* what no step of a call changes
fixed == <<fetch, debug, snapshot_file, later>>
fields == <<tld, subdomain, domain>>

----------------------------------------------------------------------------
(* TLDExtract.__init__ *)

\* the object as constructed (lines 112-117), holding memo as its extractor
Constructed(memo) ==
  /\ _extractor = memo
  /\ tld = <<>>
  /\ subdomain = <<>>
  /\ domain = <<>>
  /\ first = memo

\* the configuration, the logging level and the files of a run
Environment ==
  /\ fetch \in BOOLEAN
  /\ debug \in BOOLEAN
  /\ cache_file \in {ENOENT, EACCES, Corrupt} \cup {Data(S) : S \in CachedTlds}
  /\ snapshot_file \in {EACCES} \cup {Data(S) : S \in SnapshotTlds}

Init ==
  /\ Environment
  /\ Constructed(None)
  /\ pc = [t \in Callers |-> "idle"]
  /\ frame = [t \in Callers |-> NoFrame(<<>>)]
  /\ ret = [t \in Callers |-> Pending]
  /\ calls = [t \in Callers |-> 0]
  /\ ops = [t \in Callers |-> {}]
  /\ later = [t \in Callers |-> FALSE]

----------------------------------------------------------------------------
(* TLDExtract.__call__ and _extract *)

Goto(t, label) == pc' = [pc EXCEPT ![t] = label]
Did(t, op) == ops' = [ops EXCEPT ![t] = @ \cup {op}]

\* the call ends in an exception that reaches the caller of __call__
Raise(t) ==
  /\ Goto(t, "idle")
  /\ ret' = [ret EXCEPT ![t] = Raised]

\* a caller calls the object on a host
Call(t, h) ==
  /\ pc[t] = "idle"
  /\ calls[t] < MaxCalls
  /\ calls' = [calls EXCEPT ![t] = @ + 1]
  /\ frame' = [frame EXCEPT ![t] = NoFrame(h)]
  /\ ret' = [ret EXCEPT ![t] = Pending]
  /\ ops' = [ops EXCEPT ![t] = {}]
  /\ later' = [later EXCEPT ![t] = first # None]
  /\ Goto(t, "get")
  /\ UNCHANGED <<fetch, debug, snapshot_file, cache_file, _extractor, fields,
                 first>>

\* Extract adding the suffix it found to the memoized set
ExtractLearning(t) ==
  /\ pc[t] = "extract"
  /\ LET found == extract(TldsOf(frame[t].extractor), frame[t].host)
         parts == RPartition(found[1])
     IN /\ frame' = [frame EXCEPT ![t].registered_domain = found[1],
                                  ![t].tld = found[2],
                                  ![t].subdomain = parts[1],
                                  ![t].domain = parts[3]]
        /\ _extractor' = Extractor(TldsOf(_extractor) \cup {found[2]})
  /\ Goto(t, "tld")
  /\ UNCHANGED <<fixed, cache_file, fields, ret, calls, ops, first>>

\* line 132, after _get_tld_extractor returned, and line 133
Extract(t) ==
  /\ pc[t] = "extract"
  /\ LET found == extract(TldsOf(frame[t].extractor), frame[t].host)
         parts == RPartition(found[1])
     IN frame' = [frame EXCEPT ![t].registered_domain = found[1],
                               ![t].tld = found[2],
                               ![t].subdomain = parts[1],
                               ![t].domain = parts[3]]
  /\ Goto(t, "tld")
  /\ UNCHANGED <<fixed, cache_file, _extractor, fields, ret, calls, ops, first>>

\* line 134
SetTld(t) ==
  /\ pc[t] = "tld"
  /\ tld' = frame[t].tld
  /\ Goto(t, "subdomain")
  /\ UNCHANGED <<fixed, cache_file, _extractor, subdomain, domain, frame, ret,
                 calls, ops, first>>

\* line 135
SetSubdomain(t) ==
  /\ pc[t] = "subdomain"
  /\ subdomain' = frame[t].subdomain
  /\ Goto(t, "domain")
  /\ UNCHANGED <<fixed, cache_file, _extractor, tld, domain, frame, ret, calls,
                 ops, first>>

\* what __call__ hands back: the value of _extract, which has no return
CallValue(t) == PyNone

\* line 136, the end of _extract, and the return of line 129
SetDomain(t) ==
  /\ pc[t] = "domain"
  /\ domain' = frame[t].domain
  /\ ret' = [ret EXCEPT ![t] = Returned(CallValue(t))]
  /\ Goto(t, "idle")
  /\ UNCHANGED <<fixed, cache_file, _extractor, tld, subdomain, frame, calls,
                 ops, first>>

----------------------------------------------------------------------------
(* TLDExtract._get_tld_extractor *)

\* self._extractor = e, and the first extractor ever memoized
Memoize(e) ==
  /\ _extractor' = e
  /\ first' = IF first = None THEN e ELSE first

\* lines 141-142: the memoized extractor is returned
MemoHit(t) ==
  /\ pc[t] = "get"
  /\ Truthy(_extractor)
  /\ frame' = [frame EXCEPT ![t].extractor = _extractor]
  /\ Goto(t, "extract")
  /\ UNCHANGED <<fixed, cache_file, _extractor, fields, ret, calls, ops, first>>

\* line 141: nothing is memoized
MemoMiss(t) ==
  /\ pc[t] = "get"
  /\ ~Truthy(_extractor)
  /\ Goto(t, "cache")
  /\ UNCHANGED <<fixed, cache_file, _extractor, fields, frame, ret, calls, ops,
                 first>>

\* CacheHit memoizing the cache's set merged with the snapshot's
CacheHitMerged(t) ==
  /\ pc[t] = "cache"
  /\ cache_file.kind = "data"
  /\ Memoize(Extractor(cache_file.tlds \cup snapshot_file.tlds))
  /\ Did(t, "cache hit")
  /\ Goto(t, "return")
  /\ UNCHANGED <<fixed, cache_file, fields, frame, ret, calls>>

\* lines 145-147: the cache file is read and holds a set
CacheHit(t) ==
  /\ pc[t] = "cache"
  /\ cache_file.kind = "data"
  /\ Memoize(Extractor(cache_file.tlds))
  /\ Did(t, "cache hit")
  /\ Goto(t, "return")
  /\ UNCHANGED <<fixed, cache_file, fields, frame, ret, calls>>

\* lines 145-154: the cache file is absent, unreadable or no pickle
CacheMiss(t) ==
  /\ pc[t] = "cache"
  /\ cache_file.kind # "data"
  /\ Did(t, "cache miss")
  /\ Goto(t, "fetch")
  /\ UNCHANGED <<fixed, cache_file, _extractor, fields, frame, ret, calls, first>>

\* what _PublicSuffixListSource can end in: the rules of the page read,
\* no rule after a URLError (_fetch_page returns ''), or an exception that
\* is no URLError (a reset or timed out read, bytes that are not UTF-8)
FetchOutcomes ==
  {[kind |-> "page", tlds |-> S] : S \in FetchedTlds}
    \cup {[kind |-> "URLError", tlds |-> {}], [kind |-> "error", tlds |-> {}]}

\* where line 161 and then lines 167-175 lead with tlds
AfterFetch(tlds) ==
  IF tlds = {} THEN "snapshot" ELSE IF debug THEN "diff" ELSE "write"

\* FetchDisabled fetching the list all the same
FetchAnyway(t) ==
  /\ pc[t] = "fetch"
  /\ ~fetch
  /\ \E o \in FetchOutcomes :
       /\ o.kind # "error"
       /\ frame' = [frame EXCEPT ![t].tlds = o.tlds]
       /\ Goto(t, AfterFetch(o.tlds))
  /\ Did(t, "fetch")
  /\ UNCHANGED <<fixed, cache_file, _extractor, fields, ret, calls, first>>

\* lines 156-161 with self.fetch false
FetchDisabled(t) ==
  /\ pc[t] = "fetch"
  /\ ~fetch
  /\ frame' = [frame EXCEPT ![t].tlds = {}]
  /\ Goto(t, AfterFetch({}))
  /\ UNCHANGED <<fixed, cache_file, _extractor, fields, ret, calls, ops, first>>

\* lines 156-161 with self.fetch true, the source answering
FetchPage(t) ==
  /\ pc[t] = "fetch"
  /\ fetch
  /\ \E o \in FetchOutcomes :
       /\ o.kind # "error"
       /\ frame' = [frame EXCEPT ![t].tlds = o.tlds]
       /\ Goto(t, AfterFetch(o.tlds))
  /\ Did(t, "fetch")
  /\ UNCHANGED <<fixed, cache_file, _extractor, fields, ret, calls, first>>

\* lines 157-159 with self.fetch true, the source raising past _fetch_page
FetchRaises(t) ==
  /\ pc[t] = "fetch"
  /\ fetch
  /\ [kind |-> "error", tlds |-> {}] \in FetchOutcomes
  /\ Raise(t)
  /\ Did(t, "fetch")
  /\ UNCHANGED <<fixed, cache_file, _extractor, fields, frame, calls, first>>

\* SnapshotLoad saving the snapshot's set to the cache file as well
SnapshotLoadCached(t) ==
  /\ pc[t] = "snapshot"
  /\ snapshot_file.kind = "data"
  /\ Memoize(Extractor(snapshot_file.tlds))
  /\ cache_file' = Data(snapshot_file.tlds)
  /\ Did(t, "snapshot read")
  /\ Goto(t, "return")
  /\ UNCHANGED <<fixed, fields, frame, ret, calls>>

\* lines 161-163: no rule so far, the snapshot is loaded
SnapshotLoad(t) ==
  /\ pc[t] = "snapshot"
  /\ snapshot_file.kind = "data"
  /\ Memoize(Extractor(snapshot_file.tlds))
  /\ Did(t, "snapshot read")
  /\ Goto(t, "return")
  /\ UNCHANGED <<fixed, cache_file, fields, frame, ret, calls>>

\* SnapshotRaises swallowing the failure and memoizing an empty set
SnapshotMissingIsEmpty(t) ==
  /\ pc[t] = "snapshot"
  /\ snapshot_file.kind # "data"
  /\ Memoize(Extractor({}))
  /\ Did(t, "snapshot read")
  /\ Goto(t, "return")
  /\ UNCHANGED <<fixed, cache_file, fields, frame, ret, calls>>

\* lines 162-163: the snapshot cannot be read
SnapshotRaises(t) ==
  /\ pc[t] = "snapshot"
  /\ snapshot_file.kind # "data"
  /\ Raise(t)
  /\ Did(t, "snapshot read")
  /\ UNCHANGED <<fixed, cache_file, _extractor, fields, frame, calls, first>>

\* lines 167-173 at DEBUG level: the snapshot is read for the diff
DiffSnapshot(t) ==
  /\ pc[t] = "diff"
  /\ snapshot_file.kind = "data"
  /\ Did(t, "snapshot read")
  /\ Goto(t, "write")
  /\ UNCHANGED <<fixed, cache_file, _extractor, fields, frame, ret, calls, first>>

\* lines 169-170 at DEBUG level: the snapshot cannot be read
DiffRaises(t) ==
  /\ pc[t] = "diff"
  /\ snapshot_file.kind # "data"
  /\ Raise(t)
  /\ Did(t, "snapshot read")
  /\ UNCHANGED <<fixed, cache_file, _extractor, fields, frame, calls, first>>

\* what the cache file is after lines 175-179: the set written, the file
\* as it was when open() fails, or a cut file when the dump fails
WriteOutcomes(tlds) == {Data(tlds), cache_file, Corrupt}

\* lines 175-179: the fetched set is written to the cache file
WriteCache(t) ==
  /\ pc[t] = "write"
  /\ cache_file' \in WriteOutcomes(frame[t].tlds)
  /\ Did(t, "cache write")
  /\ Goto(t, "memoize")
  /\ UNCHANGED <<fixed, _extractor, fields, frame, ret, calls, first>>

\* line 181
SetExtractor(t) ==
  /\ pc[t] = "memoize"
  /\ Memoize(Extractor(frame[t].tlds))
  /\ Goto(t, "return")
  /\ UNCHANGED <<fixed, cache_file, fields, frame, ret, calls, ops>>

\* lines 148, 164 and 182: return self._extractor
ReturnExtractor(t) ==
  /\ pc[t] = "return"
  /\ frame' = [frame EXCEPT ![t].extractor = _extractor]
  /\ Goto(t, "extract")
  /\ UNCHANGED <<fixed, cache_file, _extractor, fields, ret, calls, ops, first>>

----------------------------------------------------------------------------
(* The specifications *)

Resolve(t) ==
  \/ MemoHit(t) \/ MemoMiss(t) \/ CacheHit(t) \/ CacheMiss(t)
  \/ FetchDisabled(t) \/ FetchPage(t) \/ FetchRaises(t)
  \/ SnapshotLoad(t) \/ SnapshotRaises(t) \/ DiffSnapshot(t) \/ DiffRaises(t)
  \/ WriteCache(t) \/ SetExtractor(t) \/ ReturnExtractor(t)

Split3(t) == Extract(t) \/ SetTld(t) \/ SetSubdomain(t) \/ SetDomain(t)

Next ==
  \E t \in Callers :
    \/ \E h \in CallHosts : Call(t, h)
    \/ Resolve(t)
    \/ Split3(t)

\* callers of one provider, from its construction on
Spec == Init /\ [][Next]_vars

\* the matcher: one call on a host, of a provider that resolved its suffix
\* set from the cache file
InitMatch ==
  /\ \E S \in SuffixSets :
       /\ Constructed(Extractor(S))
       /\ cache_file = Data(S)
  /\ fetch = FALSE
  /\ debug = FALSE
  /\ snapshot_file \in {Data(S) : S \in SnapshotTlds}
  /\ \E h \in Hosts :
       frame = [t \in Callers |-> IF t = "c1" THEN NoFrame(h) ELSE NoFrame(<<>>)]
  /\ pc = [t \in Callers |-> IF t = "c1" THEN "get" ELSE "idle"]
  /\ ret = [t \in Callers |-> Pending]
  /\ calls = [t \in Callers |-> MaxCalls]
  /\ ops = [t \in Callers |-> {}]
  /\ later = [t \in Callers |-> t = "c1"]

NextMatch == MemoHit("c1") \/ Split3("c1")

SpecMatch == InitMatch /\ [][NextMatch]_vars

----------------------------------------------------------------------------
(* The matcher's claims, stated of the one call of SpecMatch *)

\* the call's host, its labels and the suffix set it is matched against
H == frame["c1"].host
Labels == Split(H)
N == Len(Labels)
S == TldsOf(_extractor)

\* the call is over (line 136 done), and lines 132-133 are done
Done == pc["c1"] = "idle" /\ ret["c1"].kind # "pending"
Matched == pc["c1"] \in {"tld", "subdomain", "domain"} \/ Done

\* the tail of the host from label i on (i from 0; the empty text at N)
TailAt(i) == Join(From(Labels, i))
ExceptionAt(i) == (<<"!">> \o TailAt(i)) \in S
WildcardAt(i) == (<<"*", Dot>> \o TailAt(i + 1)) \in S
PlainAt(i) == TailAt(i) \in S
RuleAt(i) == ExceptionAt(i) \/ WildcardAt(i) \/ PlainAt(i)
NoRule == \A i \in 0..(N - 1) : ~RuleAt(i)

NonEmpty(text) == text # <<>>
NoEmptyLabel == \A k \in 1..N : NonEmpty(Labels[k])
\* the non-empty ones of parts, joined with '.'
Rejoin(parts) == Join(SelectSeq(parts, NonEmpty))

C2_CallReturnsTriple ==
  Done => ret["c1"] = Returned(<<subdomain, domain, tld>>)

PlainRule(rule) == NonEmpty(rule) /\ rule[1] \notin {"!", "*"}
PlainOnly == \A rule \in S : PlainRule(rule)
\* the tails of the host that are members of the suffix set
MemberTails == {TailAt(i) : i \in 0..(N - 1)} \cap S

Pair == <<frame["c1"].registered_domain, frame["c1"].tld>>

----------------------------------------------------------------------------
(* The provider's claims, stated of the callers of Spec *)

\* C8 as stated: with a readable snapshot, whatever the cache read, the
\* fetch and the cache write end in, no failure reaches the caller of a call.
C8_NoFailureReachesCaller ==
  snapshot_file.kind = "data" => \A t \in Callers : ret[t].kind # "raised"

\* the caller holds the extractor _get_tld_extractor returned to it
Resolved(t) == pc[t] \in {"extract", "tld", "subdomain", "domain"}

\* C9 as stated: a request that begins after the first resolution does no
\* cache read, fetch, snapshot read or cache write, and is handed the
\* extractor that resolution memoized, whatever set it holds.
C9_MemoizedOnce ==
  \A t \in Callers :
    later[t] => (ops[t] = {} /\ (Resolved(t) => frame[t].extractor = first))

\* C10: a successful cache load memoizes exactly the cache's set and leaves
\* the cache file alone, and the call that made it does no fetch, no
\* snapshot read and no cache write, fetching enabled or not.
C10_CacheVerbatim ==
  [][\A t \in Callers :
       "cache hit" \in ops'[t] =>
         /\ ops'[t] = {"cache hit"}
         /\ "cache hit" \notin ops[t] =>
              (_extractor' = Extractor(cache_file.tlds) /\ cache_file' = cache_file)]_vars

C10_Witness ==
  \E t \in Callers :
    /\ pc[t] = "idle" /\ ret[t].kind = "returned"
    /\ ops[t] = {"cache hit"}
    /\ fetch
    /\ NonEmpty(tld)
    /\ frame[t].extractor = Extractor(cache_file.tlds)


\* the caller's current or last call fetched, or wrote the cache, and did
\* not end in an exception
Fetched(t) == "fetch" \in ops[t] /\ ret[t].kind # "raised"
Wrote(t) == "cache write" \in ops[t] /\ ret[t].kind # "raised"

\* C11 as stated: with callers racing on an unresolved provider the chain
\* runs once: no two callers fetch, no two callers write the cache, and all
\* callers are handed the same extractor.
C11_ResolvesOnce ==
  \A t, u \in Callers :
    t # u =>
      /\ ~(Fetched(t) /\ Fetched(u))
      /\ ~(Wrote(t) /\ Wrote(u))
      /\ (frame[t].extractor # None /\ frame[u].extractor # None)
           => frame[t].extractor = frame[u].extractor

\* the triple of the caller's own host, as lines 132-133 computed it
Own(t) == <<frame[t].subdomain, frame[t].domain, frame[t].tld>>

\* C12 as stated: once the set is resolved, whatever the interleaving, the
\* triple a caller finds in the object when its call returns is the triple
\* of its own host.
C12_OwnTriple ==
  [][\A t \in Callers :
       (later[t] /\ pc[t] = "domain" /\ pc'[t] = "idle") =>
         <<subdomain', domain', tld'>> = Own(t)]_vars

\* the set a provider that never fetches resolves to: the cache file's when
\* it holds one, the snapshot's otherwise
Offline ==
  IF cache_file.kind = "data" THEN Extractor(cache_file.tlds)
  ELSE Extractor(snapshot_file.tlds)

\* C13: with fetching disabled no call ever fetches or writes the cache,
\* the cache file never changes, and the memoized set, once there is one, is
\* the cache file's content or, the cache holding none, the snapshot's.
C13_NoFetchNoWrite ==
  /\ [](~fetch =>
          /\ \A t \in Callers : ops[t] \cap {"fetch", "cache write"} = {}
          /\ _extractor # None => _extractor = Offline)
  /\ [][~fetch => cache_file' = cache_file]_vars

C13_Witness ==
  \E t \in Callers :
    /\ ~fetch
    /\ calls[t] = MaxCalls /\ pc[t] = "idle" /\ ret[t].kind = "returned"
    /\ later[t]
    /\ cache_file = ENOENT
    /\ _extractor = Extractor(snapshot_file.tlds)
    /\ NonEmpty(tld)

\* C14 as stated: a call whose cache load missed and whose fetch failed or
\* gave no rule goes on as after an empty fetch: with a readable snapshot it
\* does not raise, reads the snapshot and does not write the cache.
C14_FetchFailureIsEmpty ==
  \A t \in Callers :
    ( /\ snapshot_file.kind = "data"
      /\ {"cache miss", "fetch"} \subseteq ops[t]
      /\ frame[t].tlds = {}
      /\ pc[t] # "snapshot" )
    => /\ ret[t].kind # "raised"
       /\ "snapshot read" \in ops[t]
       /\ "cache write" \notin ops[t]

\* the caller's call fetched a set that is not empty
FetchedSome(t) == "fetch" \in ops[t] /\ frame[t].tlds # {}
\* the caller is not inside lines 141-175
PastWrite(t) == pc[t] \notin {"get", "cache", "fetch", "diff", "write"}

WriteFailed(t) ==
  "cache write" \in ops[t] /\ cache_file # Data(frame[t].tlds)

\* C16 as stated: after a failed cache write the call does not raise, and
\* the fetched set is the one memoized and used by this call and by every
\* later call.
C16_WriteFailureNotFatal ==
  \A t \in Callers :
    WriteFailed(t) =>
      /\ ret[t].kind # "raised"
      /\ pc[t] \in {"return", "idle"} \cup {"extract", "tld", "subdomain", "domain"}
           => _extractor = Extractor(frame[t].tlds)
      /\ Resolved(t) => frame[t].extractor = Extractor(frame[t].tlds)
      /\ \A u \in Callers :
           (later[u] /\ Resolved(u)) => frame[u].extractor = Extractor(frame[t].tlds)

\* C17: a resolution that reaches the snapshot fallback (cache missed,
\* fetching disabled or without a rule) with an unreadable snapshot ends the
\* call in an exception and memoizes nothing; a call made while nothing is
\* memoized runs the chain from the cache load on.
C17_SnapshotFailureSurfaces ==
  [][\A t \in Callers :
       /\ (pc[t] = "snapshot" /\ pc'[t] # "snapshot" /\ snapshot_file.kind # "data")
            => /\ ret'[t] = Raised /\ pc'[t] = "idle"
               /\ "cache miss" \in ops[t] /\ frame[t].tlds = {}
               /\ _extractor' = _extractor
               /\ cache_file' = cache_file
       /\ (pc[t] = "get" /\ pc'[t] # "get" /\ _extractor = None)
            => pc'[t] = "cache"]_vars

C17_Witness ==
  \E t \in Callers :
    /\ calls[t] = MaxCalls /\ pc[t] = "idle" /\ ret[t] = Raised
    /\ {"cache miss", "snapshot read"} \subseteq ops[t]
    /\ ~later[t]
    /\ _extractor = None
    /\ \A u \in Callers \ {t} : calls[u] = 0

\* a plain rule of more than one label
Compound(rule) == PlainRule(rule) /\ Len(Split(rule)) > 1

C19_ExtractLeavesSet ==
  [][\A t \in Callers :
       (later[t] /\ pc[t] # "idle" /\ pc'[t] # pc[t]) =>
         (_extractor' = _extractor /\ cache_file' = cache_file)]_vars

C19_Witness ==
  \E t \in Callers :
    /\ later[t] /\ calls[t] = MaxCalls
    /\ pc[t] = "idle" /\ ret[t].kind = "returned"
    /\ NonEmpty(frame[t].tld) /\ NonEmpty(frame[t].subdomain)
    /\ _extractor = first
    /\ cache_file.kind = "data"

\* the result is cut out of the host at label k: the suffix is the tail from
\* label k on, the domain the label before it and the subdomain the labels
\* before that one
CutAt(k) ==
  /\ tld = TailAt(k)
  /\ IF k = 0 THEN subdomain = <<>> /\ domain = <<>>
     ELSE subdomain = Join(Upto(Labels, k - 1)) /\ domain = Labels[k]

====
